---- MODULE Spec2Model ----
(***************************************************************************)
(* Model of sovereign-tee-core: Shamir sharing (sharding.rs), the scalar   *)
(* decoder (scalar_utils.rs), the additive share refresh (pss.rs), the     *)
(* quorum verifier (dao.rs) and the CLI commands (main.rs).                *)
(*                                                                         *)
(* The scalar field is scaled down: the group order Q is a small prime, a  *)
(* "byte" is a digit in base ByteBase, and the canonical width is Width    *)
(* digits, chosen so that Q < ByteBase^Width (some canonical-width strings *)
(* are not valid scalars, as for secp256k1).                               *)
(***************************************************************************)
EXTENDS Integers, Sequences, FiniteSets, TLC

\* ------------------------------------------------------------------ bounds
\* largest number of shares issued by split_secret ("total")
MaxTotal == 3
\* largest length of the share list handed to recover_secret
MaxPicked == 3

\* --------------------------------------------------------- field (k256::Scalar)
\* order of the scalar field (scaled-down stand-in for the secp256k1 order)
Q == 7

Field == 0 .. (Q - 1)

FAdd(a, b) == (a + b) % Q
FSub(a, b) == (a - b + Q) % Q
FMul(a, b) == (a * b) % Q

\* Scalar::from(x as u64)
FromU64(x) == x % Q

\* sharding.rs power(): square-and-multiply
RECURSIVE PowerLoop(_, _, _)
PowerLoop(res, b, e) ==
    IF e > 0
    THEN PowerLoop(IF e % 2 = 1 THEN FMul(res, b) ELSE res, FMul(b, b), e \div 2)
    ELSE res

PowerBadNoSquare(base, exp) == IF exp = 0 THEN 1 ELSE FMul(base, exp)

power(base, exp) == PowerLoop(1, base, exp)

\* Scalar::invert(): CtOption, none for zero
None == [some |-> FALSE, val |-> 0]
Some(v) == [some |-> TRUE, val |-> v]

Invert(d) == IF d = 0 THEN None ELSE Some(power(d, Q - 2))

\* ------------------------------------------------------------ outcomes
\* An operation ends with a value (ok), an error value returned to the
\* caller (err), or a panic that aborts the program (panic).
Ok(v) == [kind |-> "ok", val |-> v]
Err(e) == [kind |-> "err", val |-> e]
Panic(e) == [kind |-> "panic", val |-> e]
NotRun == [kind |-> "none", val |-> 0]
IsOk(out, v) == out.kind = "ok" /\ out.val = v

\* ---------------------------------------------------------- sharding.rs
\* y = a_0 + a_1*x + ... + a_{k-1}*x^{k-1}; coefficients[i+1] is a_i
RECURSIVE EvalFrom(_, _, _)
EvalFrom(coefficients, x, i) ==
    IF i > Len(coefficients)
    THEN 0
    ELSE FAdd(FMul(coefficients[i], power(FromU64(x), i - 1)),
              EvalFrom(coefficients, x, i + 1))

EvalPoly(coefficients, x) == EvalFrom(coefficients, x, 1)

SplitBadZeroBased(s, t, n, rnd) ==
    IF ~(t <= n)
    THEN Panic("assertion failed: threshold <= total")
    ELSE Ok([x \in 1 .. n |-> <<x - 1, EvalPoly(<<s>> \o rnd, x - 1)>>])

\* split_secret: rnd are the sampled coefficients a_1 .. a_{threshold-1}
split_secret(s, t, n, rnd) ==
    IF ~(t <= n)
    THEN Panic("assertion failed: threshold <= total")
    ELSE Ok([x \in 1 .. n |-> <<x, EvalPoly(<<s>> \o rnd, x)>>])

\* Lagrange basis at 0 for share j: product over m # j
RECURSIVE Numerator(_, _, _)
Numerator(sh, j, m) ==
    IF m > Len(sh) THEN 1
    ELSE IF m = j THEN Numerator(sh, j, m + 1)
    ELSE FMul(FromU64(sh[m][1]), Numerator(sh, j, m + 1))

DenTermBadSign(xm, xj) == FSub(xj, xm)

DenTerm(xm, xj) == FSub(xm, xj)

RECURSIVE Denominator(_, _, _)
Denominator(sh, j, m) ==
    IF m > Len(sh) THEN 1
    ELSE IF m = j THEN Denominator(sh, j, m + 1)
    ELSE FMul(DenTerm(FromU64(sh[m][1]), FromU64(sh[j][1])),
              Denominator(sh, j, m + 1))

\* the loop of recover_secret from share j on; acc is `secret`
RECURSIVE RecoverFrom(_, _, _)
RecoverFrom(sh, j, acc) ==
    IF j > Len(sh) THEN Ok(acc)
    ELSE LET inv == Invert(Denominator(sh, j, 1))
         IN  IF ~inv.some
             THEN Panic("called unwrap on a none CtOption")
             ELSE RecoverFrom(sh, j + 1,
                      FAdd(acc, FMul(sh[j][2], FMul(Numerator(sh, j, 1), inv.val))))

recover_secret(sh) ==
    IF Len(sh) = 0 THEN Err("No shares provided") ELSE RecoverFrom(sh, 1, 0)

\* ------------------------------------------------------- scalar_utils.rs
\* number of values of one byte (scaled down from 256)
ByteBase == 2
\* canonical width of a scalar in bytes (scaled down from 32)
Width == 3

Byte == 0 .. (ByteBase - 1)

RECURSIVE Pow(_, _)
Pow(b, e) == IF e = 0 THEN 1 ELSE b * Pow(b, e - 1)

\* big-endian integer held by a byte string
RECURSIVE BEValue(_)
BEValue(bytes) ==
    IF Len(bytes) = 0 THEN 0
    ELSE BEValue(SubSeq(bytes, 1, Len(bytes) - 1)) * ByteBase + bytes[Len(bytes)]

ReverseBadIdentity(bytes) == bytes

\* Vec::reverse
Reverse(bytes) == [i \in 1 .. Len(bytes) |-> bytes[Len(bytes) + 1 - i]]

\* Scalar::to_bytes: the canonical fixed-width big-endian encoding
to_bytes(x) == [i \in 1 .. Width |-> (x \div Pow(ByteBase, Width - i)) % ByteBase]

\* Scalar::from_repr on a FieldBytes: none when the integer is >= the order
from_repr(repr) == IF BEValue(repr) < Q THEN Some(BEValue(repr)) ELSE None

\* FieldBytes::from_slice asserts that the slice has the canonical width;
\* Scalar::from_repr(*FieldBytes::from_slice(bytes)) as main.rs reads a shard
read_canonical(bytes) ==
    IF Len(bytes) # Width
    THEN Panic("from_slice: length mismatch")
    ELSE IF from_repr(bytes).some
         THEN Ok(from_repr(bytes).val)
         ELSE Err("Invalid scalar in shard")

TruncateBadTail(bytes) ==
    IF Len(bytes) > Width THEN SubSeq(bytes, Len(bytes) - Width + 1, Len(bytes)) ELSE bytes

\* Vec::resize(Width, 0) when the buffer is longer than Width
Truncate(bytes) == IF Len(bytes) > Width THEN SubSeq(bytes, 1, Width) ELSE bytes

bytes_to_scalar(bytes) ==
    LET key_bytes == Reverse(Truncate(bytes))
    IN  IF Len(key_bytes) # Width
        THEN Panic("from_slice: length mismatch")
        ELSE IF from_repr(key_bytes).some
             THEN Ok(from_repr(key_bytes).val)
             ELSE Err("Invalid scalar encoding")

\* bcs::to_bytes of the dwallet group scalar: little-endian, one byte longer
\* than the canonical width (pss.rs: "If it's LE, first 32 bytes is the data")
foreign_to_bytes(x, pad) == Reverse(to_bytes(x)) \o <<pad>>

\* ------------------------------------------------------------------ pss.rs
\* bcs::to_bytes of a group scalar (BCS output is canonical: one encoding)
bcs_to_bytes(x) == foreign_to_bytes(x, 0)

\* bcs::from_bytes into a group scalar: the little-endian integer of the
\* first Width bytes; an error for another length or an integer >= the order
bcs_from_bytes(bytes) ==
    IF Len(bytes) # Width + 1
    THEN Err("Failed to deserialize share")
    ELSE IF BEValue(Reverse(SubSeq(bytes, 1, Width))) < Q
         THEN Ok(BEValue(Reverse(SubSeq(bytes, 1, Width))))
         ELSE Err("Failed to deserialize share")

NewTeeBadPlus(s_tee, alpha) == FAdd(s_tee, alpha)

\* s_tee - &alpha
NewTee(s_tee, alpha) == FSub(s_tee, alpha)

NewDaoBadKeep(s_dao, alpha) == s_dao

\* s_dao + &alpha
NewDao(s_dao, alpha) == FAdd(s_dao, alpha)

refresh_secp256k1(dao_share_bytes, tee_share_bytes, alpha) ==
    LET s_dao == bcs_from_bytes(dao_share_bytes)
        s_tee == bcs_from_bytes(tee_share_bytes)
    IN  IF s_dao.kind # "ok" THEN Err("Failed to deserialize DAO share")
        ELSE IF s_tee.kind # "ok" THEN Err("Failed to deserialize TEE share")
        ELSE Ok([new_dao_share |-> bcs_to_bytes(NewDao(s_dao.val, alpha)),
                 new_tee_share |-> bcs_to_bytes(NewTee(s_tee.val, alpha))])

perform_pss_refresh(curve, dao_share_bytes, tee_share_bytes, alpha) ==
    IF curve = 0
    THEN refresh_secp256k1(dao_share_bytes, tee_share_bytes, alpha)
    ELSE Err("Curve not supported for PSS yet")

SigningKeyBadAcceptZero(bytes) ==
    IF Len(bytes) # Width THEN Panic("from_slice: length mismatch")
    ELSE IF BEValue(bytes) >= Q
         THEN Err("Invalid private key reconstruction")
         ELSE Ok(BEValue(bytes))

\* SigningKey::from_bytes: a non-zero integer below the order
signing_key_from_bytes(bytes) ==
    IF Len(bytes) # Width THEN Panic("from_slice: length mismatch")
    ELSE IF BEValue(bytes) = 0 \/ BEValue(bytes) >= Q
         THEN Err("Invalid private key reconstruction")
         ELSE Ok(BEValue(bytes))

\* the key that mock_sign_and_verify rebuilds from the two shares
mock_signing_key(dao_share_bytes, tee_share_bytes) ==
    LET s_dao == bcs_from_bytes(dao_share_bytes)
        s_tee == bcs_from_bytes(tee_share_bytes)
    IN  IF s_dao.kind # "ok" \/ s_tee.kind # "ok"
        THEN Err("Failed to deserialize share")
        ELSE signing_key_from_bytes(
                 Reverse(Truncate(bcs_to_bytes(FAdd(s_dao.val, s_tee.val)))))

\* main.rs, "3. Reconstruct Private Key": sk = s_dao_scalar + s_tee_scalar,
\* SigningKey::from_bytes(&sk.to_bytes())
combined_key(s_dao_scalar, s_tee_scalar) ==
    signing_key_from_bytes(to_bytes(FAdd(s_dao_scalar, s_tee_scalar)))

\* the key that ProposalExecute rebuilds under Seal from the two share files
execute_signing_key(dao_bytes, tee_bytes) ==
    LET s_tee == bytes_to_scalar(tee_bytes)
        s_dao == bytes_to_scalar(dao_bytes)
    IN  IF s_tee.kind # "ok" THEN s_tee
        ELSE IF s_dao.kind # "ok" THEN s_dao
        ELSE combined_key(s_dao.val, s_tee.val)

\* ------------------------------------------------------------------ dao.rs
\* A member is [name, pubkey, pubOk]: pubkey names the key pair made by
\* Member::new, pubOk tells whether pubkey_hex decodes to a curve point.
\* A signature is [ok, key, msg]: ok tells whether sig_hex decodes to a
\* Signature, key and msg are the private key and the message it was made with.
Sig(k, m) == [ok |-> TRUE, key |-> k, msg |-> m]
MalformedSig == [ok |-> FALSE, key |-> 0, msg |-> "none"]
\* a well-formed signature made by a key outside the roster over other bytes
TamperedSig == Sig(0, "other")

\* Member::sign
member_sign(member, message) == Sig(member.pubkey, message)

\* VerifyingKey::verify
sig_verifies(pubkey, message, sig) == sig.key = pubkey /\ sig.msg = message

\* self.members.iter().find(|m| &m.name == member_name): the first match
find_member(members, name) ==
    LET at == {i \in 1 .. Len(members) : members[i].name = name}
    IN  IF at = {} THEN None
        ELSE Some(members[CHOOSE i \in at : \A k \in at : i <= k])

QuorumBadStrict(valid_votes, t) == valid_votes > t

\* valid_votes >= self.threshold
Quorum(valid_votes, t) == valid_votes >= t

\* the loop of verify_proposal over the entries in the order `order` in
\* which the HashMap yields them
RECURSIVE VerifyLoop(_, _, _, _, _, _)
VerifyLoop(group, message, signatures, order, i, valid_votes) ==
    IF i > Len(order)
    THEN Ok(Quorum(valid_votes, group.threshold))
    ELSE LET member == find_member(group.members, order[i])
             sig == signatures[order[i]]
         IN  IF ~member.some
             THEN VerifyLoop(group, message, signatures, order, i + 1, valid_votes)
             ELSE IF ~member.val.pubOk
             THEN Err("Invalid pubkey")
             ELSE IF ~sig.ok
             THEN Err("Invalid signature format")
             ELSE IF sig_verifies(member.val.pubkey, message, sig)
             THEN VerifyLoop(group, message, signatures, order, i + 1, valid_votes + 1)
             ELSE VerifyLoop(group, message, signatures, order, i + 1, valid_votes)

verify_proposal(group, message, signatures, order) ==
    VerifyLoop(group, message, signatures, order, 1, 0)

\* the orders in which a HashMap with the keys S may be iterated
Orders(S) ==
    {f \in [1 .. Cardinality(S) -> S] : \A x \in S : \E i \in DOMAIN f : f[i] = x}

\* ------------------------------------------------------------------ state
VARIABLES
    shPc,        \* sharding: "start", "split", "aborted", "recovered"
    secret,      \* sharding: the secret given to split_secret
    threshold,   \* sharding: threshold argument
    total,       \* sharding: total argument
    coeffs,      \* sharding: the coefficients sampled by split_secret
    splitOut,    \* sharding: outcome of split_secret
    picked,      \* sharding: the share list handed to recover_secret
    recOut,      \* sharding: outcome of recover_secret
    cdPc,        \* codec: "start", "encoded", "decoded"
    cdX,         \* codec: the scalar that was encoded (0 for a raw buffer)
    cdSrc,       \* codec: "raw", "canonical" or "foreign": where cdBytes is from
    cdBytes,     \* codec: the byte buffer
    cdVia,       \* codec: the decoder applied
    cdOut,       \* codec: outcome of the decoder
    psPc,        \* refresh: "run" while the custody pair is live
    psGenesis,   \* refresh: the pair of scalars sampled at genesis
    psDao,       \* refresh: the current DAO share (bytes)
    psTee,       \* refresh: the current TEE share (bytes)
    psCount,     \* refresh: number of successful refreshes so far
    psOut,       \* refresh: outcome of the last perform_pss_refresh
    psPrev,      \* refresh: the pair (bytes) the last successful refresh was given
    psAlpha,     \* refresh: the blinding value the last successful refresh sampled
    qPc,         \* quorum: "build", "verified"
    qGroup,      \* quorum: the DaoGroup [threshold, members]
    qSigs,       \* quorum: the endorsements, member name -> signature
    qOut,        \* quorum: outcome of verify_proposal
    pc,          \* cli: position of ProposalExecute: "idle", "keyed", "authorized"
    group,       \* cli: the roster file [exists, threshold, members]
    daoFile,     \* cli: content of the DAO share file (<<>> when absent)
    teeFile,     \* cli: content of the TEE share file (<<>> when absent)
    shardFiles,  \* cli: shard index -> content of shard_<index>.hex
    launched,    \* cli: outcome of the launch: NotRun, or Ok(key published)
    exStrategy,  \* cli: strategy of the running ProposalExecute
    exKey,       \* cli: the combined signing key of the running ProposalExecute
    exVerify,    \* cli: "none", or "true" / "false" as verify_proposal returned
    exSig,       \* cli: NotRun, or Ok(signature made with the combined key)
    cliOut,      \* cli: kind of outcome of the last command
    kyPair,      \* key: the two custody shares as scalars
    kyDao,       \* key: the DAO share file as the launch wrote it
    kyTee,       \* key: the TEE share file as the launch wrote it
    kyLaunch,    \* key: outcome of the key derivation of mock_sign_and_verify
    kyExec       \* key: outcome of the key derivation of ProposalExecute

shamirVars == <<shPc, secret, threshold, total, coeffs, splitOut, picked, recOut>>
codecVars == <<cdPc, cdX, cdSrc, cdBytes, cdVia, cdOut>>

pssVars == <<psPc, psGenesis, psDao, psTee, psCount, psOut, psPrev, psAlpha>>

quorumVars == <<qPc, qGroup, qSigs, qOut>>

cliVars == <<pc, group, daoFile, teeFile, shardFiles, launched,
             exStrategy, exKey, exVerify, exSig, cliOut>>

keyVars == <<kyPair, kyDao, kyTee, kyLaunch, kyExec>>

vars == <<shamirVars, codecVars, pssVars, quorumVars, cliVars, keyVars>>

KeyIdle ==
    /\ kyPair = <<0, 0>> /\ kyDao = <<>> /\ kyTee = <<>>
    /\ kyLaunch = NotRun /\ kyExec = NotRun

NoFiles == [i \in {} |-> <<>>]
NoGroup == [exists |-> FALSE, threshold |-> 0, members |-> <<>>]

CliIdle ==
    /\ pc = "off" /\ group = NoGroup /\ daoFile = <<>> /\ teeFile = <<>>
    /\ shardFiles = NoFiles /\ launched = NotRun /\ exStrategy = "none"
    /\ exKey = 0 /\ exVerify = "none" /\ exSig = NotRun /\ cliOut = "none"

NoSigs == [n \in {} |-> MalformedSig]

QuorumIdle ==
    /\ qPc = "idle" /\ qGroup = [threshold |-> 0, members |-> <<>>]
    /\ qSigs = NoSigs /\ qOut = NotRun

PssIdle ==
    /\ psPc = "idle" /\ psGenesis = <<0, 0>> /\ psDao = <<>> /\ psTee = <<>>
    /\ psCount = 0 /\ psOut = NotRun /\ psPrev = <<>> /\ psAlpha = 0

CodecIdle ==
    /\ cdPc = "idle" /\ cdX = 0 /\ cdSrc = "none" /\ cdBytes = <<>>
    /\ cdVia = "none" /\ cdOut = NotRun

\* --------------------------------------------------------- sharding spec
ShamirIdle ==
    /\ shPc = "idle" /\ secret = 0 /\ threshold = 0 /\ total = 0
    /\ coeffs = <<>> /\ splitOut = NotRun /\ picked = <<>> /\ recOut = NotRun

ShamirInit ==
    /\ shPc = "start"
    /\ secret \in Field
    /\ threshold \in 0 .. (MaxTotal + 1)
    /\ total \in 0 .. MaxTotal
    /\ coeffs = <<>>
    /\ splitOut = NotRun
    /\ picked = <<>>
    /\ recOut = NotRun

\* split_secret(secret, threshold, total) with every choice of coefficients
SplitSecret ==
    /\ UNCHANGED <<codecVars, pssVars, quorumVars, cliVars, keyVars>>
    /\ shPc = "start"
    /\ \E rnd \in [1 .. (threshold - 1) -> Field] :
         /\ coeffs' = (IF threshold <= total THEN rnd ELSE <<>>)
         /\ splitOut' = split_secret(secret, threshold, total, rnd)
    /\ shPc' = (IF splitOut'.kind = "ok" THEN "split" ELSE "aborted")
    /\ UNCHANGED <<secret, threshold, total, picked, recOut>>

\* the caller puts one of the issued shares on the list (repeats allowed)
PickShare ==
    /\ UNCHANGED <<codecVars, pssVars, quorumVars, cliVars, keyVars>>
    /\ shPc = "split"
    /\ Len(picked) < MaxPicked
    /\ \E i \in 1 .. Len(splitOut.val) : picked' = Append(picked, splitOut.val[i])
    /\ UNCHANGED <<shPc, secret, threshold, total, coeffs, splitOut, recOut>>

RecoverSecret ==
    /\ UNCHANGED <<codecVars, pssVars, quorumVars, cliVars, keyVars>>
    /\ shPc = "split"
    /\ recOut' = recover_secret(picked)
    /\ shPc' = "recovered"
    /\ UNCHANGED <<secret, threshold, total, coeffs, splitOut, picked>>

ShamirNext == SplitSecret \/ PickShare \/ RecoverSecret

InitShamir == ShamirInit /\ CodecIdle /\ PssIdle /\ QuorumIdle /\ CliIdle /\ KeyIdle

SpecShamir == InitShamir /\ [][ShamirNext]_vars

\* ------------------------------------------------------- sharding claims
DistinctIndices(sh) ==
    \A i, j \in 1 .. Len(sh) : i # j => sh[i][1] # sh[j][1]

\* C1: recover_secret on any list of at least t distinct shares issued by
\* split_secret(s, t, n), 1 <= t <= n, returns s, whatever the coefficients.
C1_SplitRecover ==
    (/\ shPc = "recovered"
     /\ 1 <= threshold /\ threshold <= total
     /\ DistinctIndices(picked)
     /\ Len(picked) >= threshold)
    => IsOk(recOut, secret)

C1_Witness ==
    /\ shPc = "recovered"
    /\ threshold = 2 /\ total = 3
    /\ secret = 3
    /\ coeffs = <<5>>
    /\ Len(picked) = 2 /\ picked[1][1] = 3 /\ picked[2][1] = 1
    /\ IsOk(recOut, 3)

\* C6: recover_secret on a share list holding two shares with the same
\* index returns the error value DuplicateOrDegenerateShareIndex.
C6_DuplicateIndexIsError ==
    (shPc = "recovered" /\ ~DistinctIndices(picked))
    => recOut.kind = "err"

\* C7: split_secret fails exactly when t > n, with an error value returned
\* to the caller, and succeeds otherwise.
C7_SplitPrecondition ==
    (shPc # "start")
    => (IF threshold > total THEN splitOut.kind = "err" ELSE splitOut.kind = "ok")

\* recover_secret has run on a non-empty set of fewer than t issued shares
SubThreshold ==
    /\ shPc = "recovered"
    /\ 2 <= threshold /\ threshold <= total
    /\ DistinctIndices(picked)
    /\ 1 <= Len(picked) /\ Len(picked) < threshold

RECURSIVE PolyInt(_, _, _)
PolyInt(cs, x, i) ==
    IF i > Len(cs) THEN 0
    ELSE cs[i] * Pow(x, i - 1) + PolyInt(cs, x, i + 1)

PolyAt(cs, x) == PolyInt(cs, x, 1) % Q

\* C15: for every secret and every t <= n, split_secret returns exactly n
\* shares whose indices are 1, 2, ..., n in that order (index 0 never issued),
\* and each share value is the polynomial of degree at most t-1 with constant
\* term the secret, evaluated at the share's index.
C15_SharesOnPolynomial ==
    (splitOut.kind # "none" /\ threshold <= total)
    => /\ splitOut.kind = "ok"
       /\ Len(splitOut.val) = total
       /\ (threshold >= 1) => (Len(coeffs) = threshold - 1)
       /\ \A i \in 1 .. total :
            /\ splitOut.val[i][1] = i
            /\ splitOut.val[i][2] = PolyAt(<<secret>> \o coeffs, i)

C15_Witness ==
    /\ splitOut.kind = "ok"
    /\ secret = 5 /\ threshold = 3 /\ total = 3
    /\ coeffs = <<2, 6>>
    /\ splitOut.val = <<<<1, 6>>, <<2, 5>>, <<3, 2>>>>

\* ------------------------------------------------------------ codec spec
\* longest raw buffer is Width + MaxExtra bytes
MaxExtra == 1

BuffersOfLen(n) == [1 .. n -> Byte]

Buffers == UNION {BuffersOfLen(n) : n \in 0 .. (Width + MaxExtra)}

CodecInit ==
    /\ cdPc = "start"
    /\ cdX \in Field
    /\ cdSrc = "none"
    /\ cdBytes = <<>>
    /\ cdVia = "none"
    /\ cdOut = NotRun

\* Scalar::to_bytes, as GenesisLaunch writes a shard
EncodeCanonical ==
    /\ UNCHANGED <<shamirVars, pssVars, quorumVars, cliVars, keyVars>>
    /\ cdPc = "start"
    /\ cdBytes' = to_bytes(cdX)
    /\ cdSrc' = "canonical"
    /\ cdPc' = "encoded"
    /\ UNCHANGED <<cdX, cdVia, cdOut>>

\* bcs::to_bytes of a group scalar, as generate_initial_shares returns it
EncodeForeign ==
    /\ UNCHANGED <<shamirVars, pssVars, quorumVars, cliVars, keyVars>>
    /\ cdPc = "start"
    /\ \E pad \in Byte : cdBytes' = foreign_to_bytes(cdX, pad)
    /\ cdSrc' = "foreign"
    /\ cdPc' = "encoded"
    /\ UNCHANGED <<cdX, cdVia, cdOut>>

\* any buffer a caller may hand to the decoder (a file's content)
RawBuffer ==
    /\ UNCHANGED <<shamirVars, pssVars, quorumVars, cliVars, keyVars>>
    /\ cdPc = "start"
    /\ cdX = 0
    /\ cdBytes' \in Buffers
    /\ cdSrc' = "raw"
    /\ cdPc' = "encoded"
    /\ UNCHANGED <<cdX, cdVia, cdOut>>

DecodeBytesToScalar ==
    /\ UNCHANGED <<shamirVars, pssVars, quorumVars, cliVars, keyVars>>
    /\ cdPc = "encoded"
    /\ cdOut' = bytes_to_scalar(cdBytes)
    /\ cdVia' = "bytes_to_scalar"
    /\ cdPc' = "decoded"
    /\ UNCHANGED <<cdX, cdSrc, cdBytes>>

\* ProposalExecute reading a shard file: Scalar::from_repr on the bytes
DecodeFromRepr ==
    /\ UNCHANGED <<shamirVars, pssVars, quorumVars, cliVars, keyVars>>
    /\ cdPc = "encoded"
    /\ cdOut' = read_canonical(cdBytes)
    /\ cdVia' = "from_repr"
    /\ cdPc' = "decoded"
    /\ UNCHANGED <<cdX, cdSrc, cdBytes>>

CodecNext ==
    EncodeCanonical \/ EncodeForeign \/ RawBuffer \/ DecodeBytesToScalar \/ DecodeFromRepr

InitCodec == CodecInit /\ ShamirIdle /\ PssIdle /\ QuorumIdle /\ CliIdle /\ KeyIdle

SpecCodec == InitCodec /\ [][CodecNext]_vars

\* ---------------------------------------------------------- codec claims
Palindrome(bytes) == bytes = [i \in 1 .. Len(bytes) |-> bytes[Len(bytes) + 1 - i]]

PadOrTruncate(bytes) ==
    [i \in 1 .. Width |-> IF i <= Len(bytes) THEN bytes[i] ELSE 0]

\* C9: bytes_to_scalar on any buffer truncates or pads it to the canonical
\* width, reverses it, and returns the integer when it is below the order and
\* InvalidScalarEncoding otherwise; no buffer makes it abort.
C9_DecodePolicy ==
    (cdPc = "decoded" /\ cdVia = "bytes_to_scalar")
    => LET v == BEValue([i \in 1 .. Width |-> PadOrTruncate(cdBytes)[Width + 1 - i]])
       IN  IF v < Q THEN IsOk(cdOut, v) ELSE cdOut.kind = "err"

\* ---------------------------------------------------------- refresh spec
\* largest number of refreshes applied to one custody pair
MaxRefresh == 3

\* generate_initial_shares: two sampled scalars, serialized
PssInit ==
    /\ psPc = "run"
    /\ \E a \in Field, b \in Field :
         /\ psGenesis = <<a, b>>
         /\ psDao = bcs_to_bytes(a)
         /\ psTee = bcs_to_bytes(b)
    /\ psCount = 0
    /\ psOut = NotRun
    /\ psPrev = <<>>
    /\ psAlpha = 0

\* perform_pss_refresh on the current pair; the holders replace their shares
\* by the refreshed ones when the call succeeds
Refresh ==
    /\ UNCHANGED <<shamirVars, codecVars, quorumVars, cliVars, keyVars>>
    /\ psPc = "run"
    /\ psCount < MaxRefresh
    /\ \E curve \in {0, 1}, alpha \in Field :
         /\ psOut' = perform_pss_refresh(curve, psDao, psTee, alpha)
         /\ IF psOut'.kind = "ok"
            THEN /\ psDao' = psOut'.val.new_dao_share
                 /\ psTee' = psOut'.val.new_tee_share
                 /\ psCount' = psCount + 1
                 /\ psPrev' = <<psDao, psTee>>
                 /\ psAlpha' = alpha
            ELSE UNCHANGED <<psDao, psTee, psCount, psPrev, psAlpha>>
    /\ UNCHANGED <<psPc, psGenesis>>

PssNext == Refresh

InitRefresh == PssInit /\ ShamirIdle /\ CodecIdle /\ QuorumIdle /\ CliIdle /\ KeyIdle

SpecRefresh == InitRefresh /\ [][PssNext]_vars

\* -------------------------------------------------------- refresh claims
ShareSum(dao, tee) == FAdd(bcs_from_bytes(dao).val, bcs_from_bytes(tee).val)

\* C2: after any number of refreshes the field sum of the current pair is the
\* sum of the genesis pair, whatever blinding values were sampled, and the
\* signing key derived from the pair is the one derived at genesis.
C2_RefreshKeepsSum ==
    (psPc = "run")
    => /\ bcs_from_bytes(psDao).kind = "ok"
       /\ bcs_from_bytes(psTee).kind = "ok"
       /\ ShareSum(psDao, psTee) = FAdd(psGenesis[1], psGenesis[2])
       /\ mock_signing_key(psDao, psTee)
            = mock_signing_key(bcs_to_bytes(psGenesis[1]), bcs_to_bytes(psGenesis[2]))

C2_Witness ==
    /\ psPc = "run"
    /\ psCount = 2
    /\ psOut.kind = "ok"
    /\ bcs_from_bytes(psDao).val # psGenesis[1]
    /\ bcs_from_bytes(psTee).val # psGenesis[2]
    /\ ShareSum(psDao, psTee) = FAdd(psGenesis[1], psGenesis[2])
    /\ mock_signing_key(psDao, psTee).kind = "ok"

KeyInit ==
    /\ \E a \in Field, b \in Field :
         /\ kyPair = <<a, b>>
         /\ kyDao = bcs_to_bytes(a)
         /\ kyTee = bcs_to_bytes(b)
    /\ kyLaunch = NotRun
    /\ kyExec = NotRun

\* GenesisLaunch, "Verify PSS Shares": mock_sign_and_verify up to the key
KeyAtLaunch ==
    /\ UNCHANGED <<shamirVars, codecVars, pssVars, quorumVars, cliVars>>
    /\ kyDao # <<>>
    /\ kyLaunch.kind = "none"
    /\ kyLaunch' = mock_signing_key(kyDao, kyTee)
    /\ UNCHANGED <<kyPair, kyDao, kyTee, kyExec>>

\* ProposalExecute under Seal, steps 1 to 3: the key it signs with
KeyAtExecute ==
    /\ UNCHANGED <<shamirVars, codecVars, pssVars, quorumVars, cliVars>>
    /\ kyDao # <<>>
    /\ kyExec.kind = "none"
    /\ kyExec' = execute_signing_key(kyDao, kyTee)
    /\ UNCHANGED <<kyPair, kyDao, kyTee, kyLaunch>>

KeyNext == KeyAtLaunch \/ KeyAtExecute

InitKey == KeyInit /\ ShamirIdle /\ CodecIdle /\ PssIdle /\ QuorumIdle /\ CliIdle

SpecKey == InitKey /\ [][KeyNext]_vars

\* ----------------------------------------------------------- key claims
PairSum == FAdd(kyPair[1], kyPair[2])

Derived(out) == out.kind # "none"

\* the derivation failed for a zero sum and gave a non-zero key otherwise
ZeroRejected(out) ==
    /\ (PairSum = 0) => (out.kind = "err")
    /\ (PairSum # 0) => (out.kind = "ok" /\ out.val # 0)

\* C14: when the two custody shares sum to zero, deriving the signing key
\* fails with an error, at launch and at execution, and no key comes out;
\* for every non-zero sum the derivation succeeds.
C14_ZeroKeyRejected ==
    /\ Derived(kyLaunch) => ZeroRejected(kyLaunch)
    /\ Derived(kyExec) => ZeroRejected(kyExec)

C14_Witness ==
    /\ kyPair = <<3, 4>>
    /\ kyLaunch.kind = "err"
    /\ kyExec.kind = "err"

\* C16: the key derived at launch (shares added in the foreign field, the
\* sum truncated to the canonical width and reversed) equals the key derived
\* at execution (each share decoded with bytes_to_scalar, then added).
C16_PathsAgree ==
    (Derived(kyLaunch) /\ Derived(kyExec))
    => /\ kyLaunch.kind = kyExec.kind
       /\ (kyLaunch.kind = "ok") => (kyLaunch.val = kyExec.val)

C16_Witness ==
    /\ kyPair = <<5, 6>>
    /\ IsOk(kyLaunch, 4)
    /\ IsOk(kyExec, 4)

\* ----------------------------------------------------------- quorum spec
\* largest number of members of a roster
MaxMembers == 3

\* names that may join the roster, and a name that never does
MemberNames == {"alice", "bob"}
EndorserNames == MemberNames \cup {"mallory"}

QuorumInit ==
    /\ qPc = "build"
    /\ \E t \in 0 .. (MaxMembers + 1) : qGroup = [threshold |-> t, members |-> <<>>]
    /\ qSigs = NoSigs
    /\ qOut = NotRun

\* a member is appended to the roster file with a fresh key pair (GenesisJoin,
\* GroupAddMember); pubOk = FALSE is a roster file whose pubkey_hex was damaged
RosterAdd ==
    /\ UNCHANGED <<shamirVars, codecVars, pssVars, cliVars, keyVars>>
    /\ qPc = "build"
    /\ qSigs = NoSigs
    /\ Len(qGroup.members) < MaxMembers
    /\ \E n \in MemberNames, good \in BOOLEAN :
         qGroup' = [qGroup EXCEPT !.members =
                      Append(@, [name |-> n, pubkey |-> Len(@) + 1, pubOk |-> good])]
    /\ UNCHANGED <<qPc, qSigs, qOut>>

\* signatures.insert(name, sig): one entry per name
Endorse ==
    /\ UNCHANGED <<shamirVars, codecVars, pssVars, cliVars, keyVars>>
    /\ qPc = "build"
    /\ \E n \in EndorserNames \ DOMAIN qSigs :
       \E sig \in {Sig(k, "digest") : k \in 1 .. Len(qGroup.members)}
                    \cup {TamperedSig, MalformedSig} :
         qSigs' = [x \in DOMAIN qSigs \cup {n} |-> IF x = n THEN sig ELSE qSigs[x]]
    /\ UNCHANGED <<qPc, qGroup, qOut>>

VerifyProposal ==
    /\ UNCHANGED <<shamirVars, codecVars, pssVars, cliVars, keyVars>>
    /\ qPc = "build"
    /\ \E order \in Orders(DOMAIN qSigs) :
         qOut' = verify_proposal(qGroup, "digest", qSigs, order)
    /\ qPc' = "verified"
    /\ UNCHANGED <<qGroup, qSigs>>

QuorumNext == RosterAdd \/ Endorse \/ VerifyProposal

InitQuorum == QuorumInit /\ ShamirIdle /\ CodecIdle /\ PssIdle /\ CliIdle /\ KeyIdle

SpecQuorum == InitQuorum /\ [][QuorumNext]_vars

\* --------------------------------------------------------- quorum claims
Known(n) == \E i \in 1 .. Len(qGroup.members) : qGroup.members[i].name = n

\* the member a name stands for: the first one carrying it
Resolve(n) ==
    qGroup.members[CHOOSE i \in 1 .. Len(qGroup.members) :
                      /\ qGroup.members[i].name = n
                      /\ \A k \in 1 .. (i - 1) : qGroup.members[k].name # n]

\* the signature and the public key of a known member's entry both decode
WellFormedEntry(n) == Known(n) => (qSigs[n].ok /\ Resolve(n).pubOk)

ValidEntries ==
    {n \in DOMAIN qSigs :
        /\ Known(n)
        /\ WellFormedEntry(n)
        /\ qSigs[n].key = Resolve(n).pubkey
        /\ qSigs[n].msg = "digest"}

\* C3: when every entry is well-formed, verify_proposal returns true iff the
\* number of entries of roster members with a signature valid for the member's
\* key over the message is >= threshold; entries of unknown names are skipped
\* (whatever they hold), and the order of the visit does not matter.
C3_QuorumCount ==
    (qPc = "verified" /\ \A n \in DOMAIN qSigs : WellFormedEntry(n))
    => /\ qOut.kind = "ok"
       /\ qOut.val = (Cardinality(ValidEntries) >= qGroup.threshold)

C3_Witness ==
    /\ qPc = "verified"
    /\ \A n \in DOMAIN qSigs : WellFormedEntry(n)
    /\ qGroup.threshold = 2
    /\ Len(qGroup.members) = 3
    /\ DOMAIN qSigs = EndorserNames
    /\ qSigs["mallory"] = MalformedSig
    /\ Cardinality(ValidEntries) = 2
    /\ qOut.kind = "ok" /\ qOut.val = TRUE

\* C5: a malformed signature of a known member, or a malformed public key of
\* that member, is skipped: verify_proposal still returns the boolean "valid
\* entries among the others >= threshold".
C5_DecodeFailureSkipped ==
    (qPc = "verified" /\ \E n \in DOMAIN qSigs : ~WellFormedEntry(n))
    => /\ qOut.kind = "ok"
       /\ qOut.val = (Cardinality(ValidEntries) >= qGroup.threshold)

\* --------------------------------------------------------------- main.rs
\* largest number of members of the roster file
MaxRoster == 2
\* largest value of the --shards argument of GenesisLaunch
MaxShards == 2

Strategies == {"Seal", "NftSharding"}

\* build_and_hash_sui_tx: the digest is a function of the sender's key (the
\* recipient and the amount are fixed here)
tx_hash(key) == <<"SUI_TX_V1", key>>

\* --shards-in: a non-empty list of shard file indices
ShardArgs == UNION {[1 .. k -> 1 .. MaxShards] : k \in 1 .. MaxShards}

\* the shares read from the files named by --shards-in, or the first failure
RECURSIVE LoadShards(_, _, _)
LoadShards(files, i, shares) ==
    IF i > Len(files) THEN Ok(shares)
    ELSE IF files[i] \notin DOMAIN shardFiles
    THEN Err("No such file")
    ELSE LET sc == read_canonical(shardFiles[files[i]])
         IN  IF sc.kind # "ok" THEN sc
             ELSE LoadShards(files, i + 1, Append(shares, <<files[i], sc.val>>))

\* ProposalExecute, "2. Load s_dao as Scalar"
LoadDao(strategy, files) ==
    IF strategy = "Seal"
    THEN IF daoFile = <<>> THEN Err("No such file") ELSE bytes_to_scalar(daoFile)
    ELSE IF Len(files) < group.threshold
    THEN Err("Not enough shards!")
    ELSE LET sh == LoadShards(files, 1, <<>>)
         IN  IF sh.kind # "ok" THEN sh ELSE recover_secret(sh.val)

\* ProposalExecute up to "3. Reconstruct Private Key": the combined key
LoadKey(strategy, files) ==
    IF ~group.exists \/ teeFile = <<>>
    THEN Err("No such file")
    ELSE LET s_tee == bytes_to_scalar(teeFile)
             s_dao == LoadDao(strategy, files)
         IN  IF s_tee.kind # "ok" THEN s_tee
             ELSE IF s_dao.kind # "ok" THEN s_dao
             ELSE combined_key(s_dao.val, s_tee.val)

\* "Collecting Votes...": the first `threshold` members sign; an insert under
\* a name already present replaces the entry
CollectVotes(g, message) ==
    LET voters == 1 .. (IF g.threshold < Len(g.members) THEN g.threshold
                        ELSE Len(g.members))
        names == {g.members[i].name : i \in voters}
        last(n) == CHOOSE i \in voters :
                      /\ g.members[i].name = n
                      /\ \A k \in voters : g.members[k].name = n => k <= i
    IN  [n \in names |-> member_sign(g.members[last(n)], message)]

CliInit ==
    /\ pc = "idle" /\ group = NoGroup /\ daoFile = <<>> /\ teeFile = <<>>
    /\ shardFiles = NoFiles /\ launched = NotRun /\ exStrategy = "none"
    /\ exKey = 0 /\ exVerify = "none" /\ exSig = NotRun /\ cliOut = "none"

OtherIdle == UNCHANGED <<shamirVars, codecVars, pssVars, quorumVars, keyVars>>

GenesisInit ==
    /\ OtherIdle
    /\ pc = "idle"
    /\ \E t \in 0 .. (MaxRoster + 1) :
         group' = [exists |-> TRUE, threshold |-> t, members |-> <<>>]
    /\ cliOut' = "ok"
    /\ UNCHANGED <<pc, daoFile, teeFile, shardFiles, launched,
                   exStrategy, exKey, exVerify, exSig>>

GenesisJoin ==
    /\ OtherIdle
    /\ pc = "idle"
    /\ Len(group.members) < MaxRoster
    /\ \E name \in MemberNames :
         IF ~group.exists \/ (\E i \in 1 .. Len(group.members) : group.members[i].name = name)
         THEN /\ cliOut' = "err"
              /\ UNCHANGED group
         ELSE /\ group' = [group EXCEPT !.members =
                  Append(@, [name |-> name, pubkey |-> Len(@) + 1, pubOk |-> TRUE])]
              /\ cliOut' = "ok"
    /\ UNCHANGED <<pc, daoFile, teeFile, shardFiles, launched,
                   exStrategy, exKey, exVerify, exSig>>

GroupAddMember ==
    /\ OtherIdle
    /\ pc = "idle"
    /\ Len(group.members) < MaxRoster
    /\ \E name \in MemberNames :
         IF ~group.exists
         THEN /\ cliOut' = "err"
              /\ UNCHANGED group
         ELSE /\ group' = [group EXCEPT !.members =
                  Append(@, [name |-> name, pubkey |-> Len(@) + 1, pubOk |-> TRUE])]
              /\ cliOut' = "ok"
    /\ UNCHANGED <<pc, daoFile, teeFile, shardFiles, launched,
                   exStrategy, exKey, exVerify, exSig>>

\* the launch sequence, run until it has succeeded once
GenesisLaunch ==
    /\ OtherIdle
    /\ pc = "idle"
    /\ launched = NotRun
    /\ \E strategy \in Strategies, shards \in 0 .. MaxShards, a \in Field, b \in Field :
         LET s_dao == bcs_to_bytes(a)
             s_tee == bcs_to_bytes(b)
             key == mock_signing_key(s_dao, s_tee)
         IN  IF ~group.exists \/ Len(group.members) < group.threshold \/ key.kind # "ok"
             THEN /\ cliOut' = "err"
                  /\ UNCHANGED <<daoFile, teeFile, shardFiles, launched>>
             ELSE IF strategy = "Seal"
             THEN /\ daoFile' = s_dao
                  /\ teeFile' = s_tee
                  /\ launched' = Ok(key.val)
                  /\ cliOut' = "ok"
                  /\ UNCHANGED shardFiles
             ELSE \E rnd \in [1 .. (group.threshold - 1) -> Field] :
                    LET sc == bytes_to_scalar(s_dao)
                        sp == split_secret(sc.val, group.threshold, shards, rnd)
                    IN  IF sc.kind # "ok" \/ sp.kind # "ok"
                        THEN /\ cliOut' = (IF sc.kind # "ok" THEN sc.kind ELSE sp.kind)
                             /\ UNCHANGED <<daoFile, teeFile, shardFiles, launched>>
                        ELSE /\ shardFiles' = [i \in 1 .. shards |-> to_bytes(sp.val[i][2])]
                             /\ teeFile' = s_tee
                             /\ launched' = Ok(key.val)
                             /\ cliOut' = "ok"
                             /\ UNCHANGED daoFile
    /\ UNCHANGED <<pc, group, exStrategy, exKey, exVerify, exSig>>

\* ProposalExecute from its start to the combined signing key and the digest
ExecLoadKey ==
    /\ OtherIdle
    /\ pc = "idle"
    /\ \E strategy \in Strategies, files \in ShardArgs :
         LET key == LoadKey(strategy, files)
         IN  /\ (strategy = "Seal" => files = <<1>>)
             /\ exStrategy' = strategy
             /\ IF key.kind = "ok"
                THEN /\ exKey' = key.val
                     /\ pc' = "keyed"
                     /\ UNCHANGED cliOut
                ELSE /\ exKey' = 0
                     /\ pc' = "idle"
                     /\ cliOut' = key.kind
    /\ exVerify' = "none"
    /\ exSig' = NotRun
    /\ UNCHANGED <<group, daoFile, teeFile, shardFiles, launched>>

\* ProposalExecute under Seal: the votes are collected and verified
ExecVerify ==
    /\ OtherIdle
    /\ pc = "keyed"
    /\ exStrategy = "Seal"
    /\ LET signatures == CollectVotes(group, tx_hash(exKey))
       IN  \E order \in Orders(DOMAIN signatures) :
             LET res == verify_proposal(group, tx_hash(exKey), signatures, order)
             IN  IF res.kind = "ok"
                 THEN /\ exVerify' = (IF res.val THEN "true" ELSE "false")
                      /\ pc' = (IF res.val THEN "authorized" ELSE "idle")
                      /\ cliOut' = (IF res.val THEN cliOut ELSE "err")
                 ELSE /\ exVerify' = "none"
                      /\ pc' = "idle"
                      /\ cliOut' = res.kind
    /\ UNCHANGED <<group, daoFile, teeFile, shardFiles, launched,
                   exStrategy, exKey, exSig>>

\* "[TEE] Signing transaction digest...": reached after the Seal block
ExecSign ==
    /\ OtherIdle
    /\ \/ pc = "authorized"
       \/ pc = "keyed" /\ exStrategy # "Seal"
    /\ exSig' = Ok(Sig(exKey, tx_hash(exKey)))
    /\ pc' = "idle"
    /\ cliOut' = "ok"
    /\ UNCHANGED <<group, daoFile, teeFile, shardFiles, launched,
                   exStrategy, exKey, exVerify>>

\* GroupRefresh only prints
GroupRefresh ==
    /\ OtherIdle
    /\ pc = "idle"
    /\ cliOut' = "ok"
    /\ UNCHANGED <<pc, group, daoFile, teeFile, shardFiles, launched,
                   exStrategy, exKey, exVerify, exSig>>

Next ==
    \/ GenesisInit
    \/ GenesisJoin
    \/ GroupAddMember
    \/ GenesisLaunch
    \/ ExecLoadKey
    \/ ExecVerify
    \/ ExecSign
    \/ GroupRefresh

Init == CliInit /\ ShamirIdle /\ CodecIdle /\ PssIdle /\ QuorumIdle /\ KeyIdle

Spec == Init /\ [][Next]_vars

\* ------------------------------------------------------------ cli claims
\* C4: under every strategy the combined key signs the digest only after
\* quorum verification over that digest returned true; with verification
\* false or not performed, no signature is made with the combined key.
C4_SignOnlyAfterQuorum ==
    (exSig.kind = "ok") => (exVerify = "true")


\* C12: whenever the roster is used to authorize a proposal (ProposalExecute
\* has reached quorum verification or signing), 1 <= threshold <= |members|;
\* a roster with threshold 0 or with fewer members than the threshold never
\* authorizes a signature.
C12_ThresholdInRange ==
    (pc \in {"keyed", "authorized"})
    => (1 <= group.threshold /\ group.threshold <= Len(group.members))

\* C13: member names in the roster are unique in every reachable state.
C13_NamesUnique ==
    \A i \in 1 .. Len(group.members), j \in 1 .. Len(group.members) :
        group.members[i].name = group.members[j].name => i = j

====
